---- MODULE Spec2Model ----
(***************************************************************************)
(* The CognitiveArchitecture component in its variants: the Swarm variant  *)
(* (src/src/components/CognitiveArchitecture.tsx) with its WebSocket       *)
(* lifecycle, its real-time update pipeline (socket messages and the mock  *)
(* interval), its simulated MCP tool calls, the fixture its ring           *)
(* components are rendered from and its presentational state; and the two  *)
(* Forge variants (src/unnamed/part_000), which have the presentational    *)
(* state only.                                                             *)
(*                                                                         *)
(* JavaScript runs one handler at a time, so every handler is one action.  *)
(* State updates made by one handler are committed together with the       *)
(* effects that depend on them (the interval effect of lines 752-776).     *)
(* JavaScript objects are functions from their present keys to values: a   *)
(* missing key is a key outside the DOMAIN, and object spread is Spread.   *)
(*                                                                         *)
(* Spec is the feed with every kind of update, SpecLog the feed with many  *)
(* updates of few kinds, SpecUI the Swarm component under user-interface   *)
(* events, SpecVariants the three variants under the same events, and      *)
(* SpecTools the component with calls of its tool dispatcher.              *)
(***************************************************************************)
EXTENDS Integers, Sequences, FiniteSets, TLC

VARIABLES
    phase,            \* "rendered" (first render, effects pending), "mounted", "unmounted"
    isConnected,      \* useState(false), line 45
    realTimeData,     \* useState({}), line 46
    mcpStatus,        \* useState('disconnected'), line 47
    streamingUpdates, \* useState([]), line 48
    wsRef,            \* useRef(null), line 50: "null" or "ws"
    readyState,       \* the socket behind wsRef: "none", "connecting", "open", "closing", "closed"
    mcpServerRef,     \* useRef(null), line 51: "null" or "server"
    intervalActive,   \* the setInterval of the effect at lines 752-776 is set
    swarmSystem,      \* performance and status of the ring components, as rendered
    clock,            \* Date.now() / new Date() as read by the last handler
    delivered,        \* history: the updates handed to handleRealTimeUpdate, in order
    selectedComponent, \* useState(null), line 37: a component object or NoComponent
    hoveredComponent,  \* useState(null), line 38
    activeRing,        \* useState('all'), line 39
    isAnimating,       \* useState(true), line 40
    viewMode,          \* useState('overview'), line 41
    configPanelOpen,   \* useState(true), line 42
    uiEvent,           \* history: the last user-interface event handled
    forge1,            \* the six state values of the first Forge variant (part_000, 37-42)
    forge2,            \* the six state values of the second Forge variant (part_000, 823-828)
    unmatched,         \* history: the variants that had no control for some event so far
    toolCall           \* the last call of mcpServerRef.current.handleToolCall and its result

\* The state the feed works on.
feedVars == <<phase, isConnected, realTimeData, mcpStatus, streamingUpdates, wsRef,
              readyState, mcpServerRef, intervalActive, swarmSystem, clock, delivered>>

\* The presentational state of the Swarm variant.
swarmVars == <<selectedComponent, hoveredComponent, activeRing, isAnimating, viewMode,
               configPanelOpen>>

\* The presentational state of all variants, with its history.
uiVars == <<swarmVars, uiEvent, forge1, forge2, unmatched>>

vars == <<feedVars, uiVars, toolCall>>

-----------------------------------------------------------------------------
(* Bounds *)

\* How many components of the fixture, in fixture order, updates may name.
MaxIds == 2
\* How many updates one behaviour hands to handleRealTimeUpdate.
MaxUpdates == 3
\* How many updates one behaviour of SpecLog hands to handleRealTimeUpdate.
MaxLogUpdates == 12
\* How many nodes of each ring, in fixture order, the pointer reaches.
MaxNodes == 1
\* How many updates one behaviour of SpecUI hands to handleRealTimeUpdate.
MaxUIUpdates == 1

-----------------------------------------------------------------------------
(* The fixture: swarmSystem.rings, lines 294-748 *)

RingComponents ==
    << [id |-> "CSA1", name |-> "VISION_PROCESSOR",        performance |-> 98,  status |-> "active"],
       [id |-> "CSA2", name |-> "REQUIREMENT_SWARM",       performance |-> 97,  status |-> "active"],
       [id |-> "CSA3", name |-> "CONSTRAINT_WEAVER",       performance |-> 94,  status |-> "optimizing"],
       [id |-> "CSA4", name |-> "Homeskillet-v7.1",        performance |-> 96,  status |-> "active"],
       [id |-> "CSA5", name |-> "IMPLEMENTATION_WEAVER",   performance |-> 99,  status |-> "active"],
       [id |-> "CSA6", name |-> "DEPLOYMENT_ORCHESTRATOR", performance |-> 100, status |-> "active"],
       [id |-> "SA1",  name |-> "ALPHA_SWARM",             performance |-> 100, status |-> "active"],
       [id |-> "SA2",  name |-> "BRAVO_SWARM",             performance |-> 98,  status |-> "active"],
       [id |-> "SA3",  name |-> "CHARLIE_SWARM",           performance |-> 95,  status |-> "optimizing"],
       [id |-> "SA4",  name |-> "DELTA_SWARM",             performance |-> 96,  status |-> "active"],
       [id |-> "SA5",  name |-> "ECHO_SWARM",              performance |-> 98,  status |-> "active"],
       [id |-> "SA6",  name |-> "FOXTROT_SWARM",           performance |-> 99,  status |-> "active"],
       [id |-> "SS1",  name |-> "QUANTUM_PROCESSOR",       performance |-> 99,  status |-> "active"],
       [id |-> "SS2",  name |-> "LEARNING_ORCHESTRATOR",   performance |-> 97,  status |-> "active"],
       [id |-> "SS3",  name |-> "REVENUE_MAXIMIZER",       performance |-> 100, status |-> "active"],
       [id |-> "SS4",  name |-> "SEMANTIC_GUARDIAN",       performance |-> 100, status |-> "active"] >>

ComponentIds == {RingComponents[i].id : i \in DOMAIN RingComponents}

\* What a ComponentNode, its tooltip and the detail panel read of a component.
FixtureView ==
    [id \in ComponentIds |->
        LET c == CHOOSE r \in {RingComponents[i] : i \in DOMAIN RingComponents} : r.id = id
        IN  [performance |-> c.performance, status |-> c.status]]

\* The components updates may name: the first MaxIds of the fixture.
Targets == {RingComponents[i] : i \in 1..MaxIds}

Statuses == {"active", "idle", "optimizing"}

-----------------------------------------------------------------------------
(* JavaScript values *)

\* {...a, ...b}
Spread(a, b) == [k \in DOMAIN a \cup DOMAIN b |-> IF k \in DOMAIN b THEN b[k] ELSE a[k]]

\* {} and the spread of an undefined value
EmptyObject == <<>>

\* String(data.componentId) as a computed key: a missing id is the key "undefined".
KeyOf(data) == IF "componentId" \in DOMAIN data THEN data.componentId ELSE "undefined"

\* data.updates as spread into an object: nothing when it is missing.
UpdatesOf(data) == IF "updates" \in DOMAIN data THEN data.updates ELSE EmptyObject

-----------------------------------------------------------------------------
(* Updates *)

\* Outcomes of the Math.random() draws of the mock update, lines 763-768:
\* performance in 80..99, efficiency in 90..99, throughput in 500..1499 and
\* errorRate in [0, 0.1), here in thousandths.
MockPerformance == {80, 99}
MockEfficiency == {90, 99}
MockThroughput == {500}
MockErrorRate == {0}

\* The mock update of one interval tick, lines 757-770.
MockUpdates ==
    {[componentId |-> c.id,
      type        |-> "performance_update",
      performance |-> p,
      message     |-> c.name \o " optimization cycle complete",
      updates     |-> [efficiency |-> e, throughput |-> th, errorRate |-> er]] :
        c \in Targets, p \in MockPerformance, e \in MockEfficiency,
        th \in MockThroughput, er \in MockErrorRate}

\* The payloads the socket may carry, after the documented formats of lines
\* 1405-1423: performance updates with some of the fields, status changes,
\* a cognitive analysis and a token update.
SocketPayloads ==
    {[componentId |-> c.id, type |-> "performance_update", performance |-> 97,
      message |-> "", updates |-> [efficiency |-> 94]] : c \in Targets}
    \cup
    {[componentId |-> c.id, type |-> "performance_update", performance |-> 97,
      updates |-> [throughput |-> 1250]] : c \in Targets}
    \cup
    {[componentId |-> c.id, type |-> "status_change", status |-> s] :
        c \in Targets, s \in Statuses}
    \cup
    {[type |-> "cognitive_analysis", analysis |-> [status |-> "optimal"]],
     [type |-> "token_update", input_tokens |-> 12, output_tokens |-> 30]}

\* One mock update and one socket payload, for the behaviours that need many
\* updates rather than many kinds of update.
NarrowMockUpdates ==
    {u \in MockUpdates : /\ u.componentId = RingComponents[1].id
                         /\ u.performance = 80
                         /\ u.updates.efficiency = 90}

NarrowPayloads == {[type |-> "token_update", input_tokens |-> 12, output_tokens |-> 30]}

TypeOf(data) == IF "type" \in DOMAIN data THEN data.type ELSE "undefined"

\* data.message || 'System update received', line 195
MessageOf(data) ==
    IF "message" \in DOMAIN data /\ data.message # ""
    THEN data.message
    ELSE "System update received"

\* prev.slice(0, 9), line 196
SliceEnd == 9

Min(a, b) == IF a <= b THEN a ELSE b

\* MergeUpdate without `...prev[data.componentId]`: the entry is replaced.
MergeUpdate_Replace(prev, data, now) ==
    Spread(prev, [k \in {KeyOf(data)} |-> Spread(UpdatesOf(data), [lastUpdated |-> now])])

\* The updater of setRealTimeData in handleRealTimeUpdate, lines 177-184.
MergeUpdate(prev, data, now) ==
    LET key   == KeyOf(data)
        old   == IF key \in DOMAIN prev THEN prev[key] ELSE EmptyObject
        entry == Spread(Spread(old, UpdatesOf(data)), [lastUpdated |-> now])
    IN  Spread(prev, [k \in {key} |-> entry])

\* PrependUpdate as a non-functional update: it spreads the list the callback
\* closed over at mount, which is empty, instead of the previous value.
PrependUpdate_Stale(prev, data, now) ==
    <<[time |-> now, text |-> MessageOf(data)]>>

\* PrependUpdate without `.slice(0, 9)`: the list keeps every line.
PrependUpdate_NoSlice(prev, data, now) ==
    <<[time |-> now, text |-> MessageOf(data)]>> \o prev

\* The updater of setStreamingUpdates in handleRealTimeUpdate, lines 194-197.
PrependUpdate(prev, data, now) ==
    <<[time |-> now, text |-> MessageOf(data)]>>
        \o SubSeq(prev, 1, Min(SliceEnd, Len(prev)))

\* updateComponentPerformance, lines 255-258: logs, and leaves the components alone.
updateComponentPerformance(system, componentId, performance) == system

\* updateComponentStatus writing the status into the component.
updateComponentStatus_Applied(system, componentId, status) ==
    IF componentId \in DOMAIN system
    THEN [system EXCEPT ![componentId].status = status]
    ELSE system

\* updateComponentStatus, lines 260-263: logs, and leaves the components alone.
updateComponentStatus(system, componentId, status) == system

\* The type dispatch of handleRealTimeUpdate, lines 186-192.
DispatchByType(system, data) ==
    LET afterPerformance ==
            IF TypeOf(data) = "performance_update"
            THEN updateComponentPerformance(system, KeyOf(data),
                    IF "performance" \in DOMAIN data THEN data.performance ELSE 0)
            ELSE system
    IN  IF TypeOf(data) = "status_change"
        THEN updateComponentStatus(afterPerformance, KeyOf(data),
                IF "status" \in DOMAIN data THEN data.status ELSE "undefined")
        ELSE afterPerformance

\* updateRealTimeData, lines 200-208. Only claudeHooks.hooks.onMessage (line 74)
\* refers to it, and nothing calls that hook.
updateRealTimeData(prev, data) ==
    IF TypeOf(data) = "cognitive_analysis"
    THEN Spread(prev, [k \in {"cognitive"} |-> data.analysis])
    ELSE prev

\* updateTokenMetrics, lines 210-219. Only claudeHooks.hooks.onTokenUpdate
\* (line 76) refers to it, and nothing calls that hook.
updateTokenMetrics(prev, tokens) ==
    Spread(prev, [k \in {"tokens"} |->
        [input  |-> tokens.input_tokens,
         output |-> tokens.output_tokens,
         total  |-> tokens.input_tokens + tokens.output_tokens]])

\* handleRealTimeUpdate(data), lines 176-198, called by `source`.
handleRealTimeUpdate(data, source) ==
    /\ clock' = clock + 1
    /\ realTimeData' = MergeUpdate(realTimeData, data, clock')
    /\ swarmSystem' = DispatchByType(swarmSystem, data)
    /\ streamingUpdates' = PrependUpdate(streamingUpdates, data, clock')
    /\ delivered' = Append(delivered, [data |-> data, source |-> source, at |-> clock'])

-----------------------------------------------------------------------------
(* The presentational state: fixtures and rendering *)

\* The ring keys, which are also the values of the System Focus select
\* besides 'all', lines 1146-1149.
RingKeys == {"core", "agents", "specialized"}
RingOptions == {"all"} \cup RingKeys

\* The view mode buttons, line 1156.
ViewModes == {"overview", "detailed", "performance"}

\* swarmSystem: the nucleus id and the component ids of each ring, in order.
SwarmLayout ==
    [nucleus |-> "HARMONY",
     rings   |-> [core        |-> [i \in 1..6 |-> RingComponents[i].id],
                  agents      |-> [i \in 1..6 |-> RingComponents[6 + i].id],
                  specialized |-> [i \in 1..4 |-> RingComponents[12 + i].id]]]

\* forgeSystem of the first Forge variant, part_000 lines 45-320.
Forge1Layout ==
    [nucleus |-> "FORGE",
     rings   |-> [core        |-> <<"CFA1", "CFA2", "CFA3", "CFA4", "CFA5", "CFA6">>,
                  agents      |-> <<"FA1", "FA2", "FA3">>,
                  specialized |-> <<"SF1">>]]

\* forgeSystem of the second Forge variant, part_000 lines 831-1313.
Forge2Layout ==
    [nucleus |-> "HARMONY",
     rings   |-> [core        |-> <<"CFA1", "CFA2", "CFA3", "CFA4", "CFA5", "CFA6">>,
                  agents      |-> <<"FA1", "FA2", "FA3", "FA4", "FA5", "FA6">>,
                  specialized |-> <<"SF1", "SF2", "SF3", "SF4">>]]

\* A fixture object is its place in the fixture together with its id; null
\* is NoComponent.
NoComponent == [id |-> "null", ring |-> "none", index |-> 0]
Nucleus(layout) == [id |-> layout.nucleus, ring |-> "nucleus", index |-> 0]
Component(layout, ringKey, i) ==
    [id |-> layout.rings[ringKey][i], ring |-> ringKey, index |-> i]

\* The object at a place of a layout, or null where the layout has none.
ItemAt(layout, ringKey, i) ==
    IF ringKey = "nucleus"
    THEN Nucleus(layout)
    ELSE IF ringKey \in DOMAIN layout.rings /\ i \in DOMAIN layout.rings[ringKey]
         THEN Component(layout, ringKey, i)
         ELSE NoComponent

\* The ring filter without the 'all' case.
RingIsShown_OnlyNamed(active, ringKey) == active = ringKey

\* activeRing === 'all' || activeRing === ringKey, line 1251
RingIsShown(active, ringKey) == active = "all" \/ active = ringKey

\* What the render of lines 1246-1259 puts on screen: the nucleus, and the
\* components of the rings the filter lets through.
RenderedItems(layout, active) ==
    {Nucleus(layout)} \cup
    UNION {IF RingIsShown(active, ringKey)
           THEN {Component(layout, ringKey, i) : i \in DOMAIN layout.rings[ringKey]}
           ELSE {} : ringKey \in DOMAIN layout.rings}

\* selectedComponent?.id === component.id, line 813
isSelected(selected, component) == selected.id = component.id

\* hoveredComponent?.id === component.id, line 814
isHovered(hovered, component) == hovered.id = component.id

\* The tooltip shown for the hovered component only.
TooltipShown_HoverOnly(selected, hovered, component) == isHovered(hovered, component)

\* (isHovered || isSelected) && <tooltip>, line 868
TooltipShown(selected, hovered, component) ==
    isHovered(hovered, component) \/ isSelected(selected, component)

\* EnhancedDetailPanel: `if (!selectedComponent) return null`, line 994
DetailPanelRendered(selected) == selected # NoComponent

\* The six presentational state values after the first render, lines 37-42.
InitialUI ==
    [selectedComponent |-> NoComponent,
     hoveredComponent  |-> NoComponent,
     activeRing        |-> "all",
     isAnimating       |-> TRUE,
     viewMode          |-> "overview",
     configPanelOpen   |-> TRUE]

\* A user-interface event: its kind, the place of the node it is on (for
\* the node events) and the value chosen (for the select and the buttons).
Event(kind, ringKey, i, value) ==
    [kind |-> kind, ring |-> ringKey, index |-> i, value |-> value]

NoEvent == Event("none", "none", 0, "")

\* No tool call made yet.
NoCall == [name |-> "", args |-> <<>>, result |-> <<>>]

-----------------------------------------------------------------------------
(* The Forge variants, src/unnamed/part_000 *)

\* Whether a Forge variant has, on screen, the control an event is on: a
\* node of its fixture that the render of part_000 lines 751-764 shows, the
\* close button of the rendered detail panel, a control of the open control
\* panel, or the button that opens and closes that panel.
ForgeHasControl(ui, layout, ev) ==
    CASE ev.kind \in {"click", "enter", "leave"} ->
            /\ ItemAt(layout, ev.ring, ev.index) # NoComponent
            /\ ev.ring = "nucleus" \/ RingIsShown(ui.activeRing, ev.ring)
      [] ev.kind = "close" -> DetailPanelRendered(ui.selectedComponent)
      [] ev.kind \in {"ring", "view", "animate", "access"} -> ui.configPanelOpen
      [] OTHER -> TRUE

\* The handlers of a Forge variant: part_000 lines 371-373 and 463-465 (the
\* nodes), 555 (the close button), 657, 675, 691, 707 and 717 (the control
\* panel); the second variant has the same at 1364-1366, 1456-1458, 1548,
\* 1650, 1668, 1684, 1700 and 1710.
ForgeHandle(ui, layout, ev) ==
    CASE ev.kind = "click"   -> [ui EXCEPT !.selectedComponent = ItemAt(layout, ev.ring, ev.index)]
      [] ev.kind = "enter"   -> [ui EXCEPT !.hoveredComponent = ItemAt(layout, ev.ring, ev.index)]
      [] ev.kind = "leave"   -> [ui EXCEPT !.hoveredComponent = NoComponent]
      [] ev.kind = "close"   -> [ui EXCEPT !.selectedComponent = NoComponent]
      [] ev.kind = "panel"   -> [ui EXCEPT !.configPanelOpen = ~ui.configPanelOpen]
      [] ev.kind = "ring"    -> [ui EXCEPT !.activeRing = ev.value]
      [] ev.kind = "view"    -> [ui EXCEPT !.viewMode = ev.value]
      [] ev.kind = "animate" -> [ui EXCEPT !.isAnimating = ~ui.isAnimating]
      [] ev.kind = "access"  -> [ui EXCEPT !.selectedComponent = Nucleus(layout)]
      [] OTHER -> ui

\* One event on a Forge variant: handled where the variant has the control.
ForgeStep(ui, layout, ev) ==
    IF ForgeHasControl(ui, layout, ev) THEN ForgeHandle(ui, layout, ev) ELSE ui

\* The variants that have no control for an event.
Unmatched(ev) ==
    {v \in {"forge1"} : ~ForgeHasControl(forge1, Forge1Layout, ev)}
    \cup {v \in {"forge2"} : ~ForgeHasControl(forge2, Forge2Layout, ev)}

-----------------------------------------------------------------------------
(* The simulated MCP tool calls *)

\* The names of the tools the server object lists, lines 130-164.
AdvertisedTools == {"cognitive_analyzer", "performance_monitor", "integration_manager"}

\* Outcomes of Math.random() * 100 and Math.random() * 50, lines 233-247,
\* rounded down.
RandomUpTo100 == {0, 99}
RandomUpTo50 == {0, 49}

\* The mockResults object of one call, lines 230-250, for one outcome of its
\* random draws (the three metrics drawn alike).
MockResults ==
    {[cognitive_analyzer |->
         [insights        |-> <<"Pattern recognition improved by 15%", "New edge case discovered">>,
          performance     |-> p,
          recommendations |-> <<"Optimize neural pathways", "Enhance learning algorithms">>],
      performance_monitor |->
         [metrics |-> [cpu |-> c, memory |-> c, network |-> c],
          alerts  |-> <<>>,
          status  |-> "optimal"],
      integration_manager |->
         [connections |-> <<"GHL API", "Assistable Voice", "Database">>,
          health      |-> "excellent",
          latency     |-> l]] :
        p \in RandomUpTo100, c \in RandomUpTo100, l \in RandomUpTo50}

\* Names every JavaScript object answers to through Object.prototype.
ObjectPrototypeKeys ==
    {"constructor", "toString", "valueOf", "hasOwnProperty", "isPrototypeOf", "__proto__"}

\* object[key]: the object's own property, else the member inherited from
\* Object.prototype, else undefined.
GetProperty(object, key) ==
    IF key \in DOMAIN object
    THEN [kind |-> "own", value |-> object[key]]
    ELSE IF key \in ObjectPrototypeKeys
         THEN [kind |-> "inherited", value |-> [builtin |-> "Object.prototype." \o key]]
         ELSE [kind |-> "undefined", value |-> <<>>]

\* simulateToolCall(toolName, args), lines 228-253, with the mockResults it
\* built: `mockResults[toolName] || { status: 'executed' }`. The three mock
\* results and the inherited members are all truthy.
simulateToolCall(toolName, args, mockResults) ==
    LET found == GetProperty(mockResults, toolName)
    IN  IF found.kind # "undefined" THEN found.value ELSE [status |-> "executed"]

\* The tool names and arguments a caller may pass: the advertised tools with
\* arguments after their input schemas, and other names.
ToolNames == AdvertisedTools \cup {"unknown_tool", "", "constructor", "toString"}
ToolArgs ==
    {EmptyObject,
     [target |-> "swarm", depth |-> "deep"],
     [component |-> "CSA1", timeframe |-> "1h"],
     [action |-> "status", platform |-> "GHL"]}

-----------------------------------------------------------------------------
(* The component *)

Mounted == phase = "mounted"

\* The interval effect without the `if (!isConnected) return` of line 753.
SimulateEffect_Always(connected) == TRUE

\* The effect of lines 752-776 under the committed isConnected: the interval
\* is set while isConnected is true and cleared by the cleanup otherwise.
SimulateEffect(connected) == connected

\* initializeMCPServer, lines 119-174: stores the server object.
initializeMCPServer == "server"

\* The state of the first render: the useState and useRef initial values.
Init ==
    /\ phase = "rendered"
    /\ isConnected = FALSE
    /\ realTimeData = EmptyObject
    /\ mcpStatus = "disconnected"
    /\ streamingUpdates = <<>>
    /\ wsRef = "null"
    /\ readyState = "none"
    /\ mcpServerRef = "null"
    /\ intervalActive = FALSE
    /\ swarmSystem = FixtureView
    /\ clock = 0
    /\ delivered = <<>>
    /\ selectedComponent = InitialUI.selectedComponent
    /\ hoveredComponent = InitialUI.hoveredComponent
    /\ activeRing = InitialUI.activeRing
    /\ isAnimating = InitialUI.isAnimating
    /\ viewMode = InitialUI.viewMode
    /\ configPanelOpen = InitialUI.configPanelOpen
    /\ uiEvent = NoEvent
    /\ forge1 = InitialUI
    /\ forge2 = InitialUI
    /\ unmatched = {}
    /\ toolCall = NoCall

\* initializeClaudeHooks without setMcpStatus('starting').
initializeClaudeHooks_NoStarting ==
    /\ phase = "rendered"
    /\ phase' = "mounted"
    /\ \E constructed \in BOOLEAN :
        IF constructed
        THEN /\ wsRef' = "ws"
             /\ readyState' = "connecting"
             /\ mcpServerRef' = initializeMCPServer
        ELSE UNCHANGED <<wsRef, readyState, mcpServerRef>>
    /\ mcpStatus' = "disconnected"
    /\ intervalActive' = SimulateEffect(isConnected)
    /\ UNCHANGED <<isConnected, realTimeData, streamingUpdates, swarmSystem, clock, delivered>>
    /\ UNCHANGED <<uiVars, toolCall>>

\* initializeClaudeHooks calling initializeMCPServer before `new WebSocket`.
initializeClaudeHooks_ServerFirst ==
    /\ phase = "rendered"
    /\ phase' = "mounted"
    /\ mcpServerRef' = initializeMCPServer
    /\ \E constructed \in BOOLEAN :
        IF constructed
        THEN /\ mcpStatus' = "starting"
             /\ wsRef' = "ws"
             /\ readyState' = "connecting"
        ELSE /\ mcpStatus' = "disconnected"
             /\ UNCHANGED <<wsRef, readyState>>
    /\ intervalActive' = SimulateEffect(isConnected)
    /\ UNCHANGED <<isConnected, realTimeData, streamingUpdates, swarmSystem, clock, delivered>>
    /\ UNCHANGED <<uiVars, toolCall>>

\* The mount effects: initializeClaudeHooks, lines 63-110, and the first run
\* of the interval effect. `new WebSocket` either returns a connecting socket
\* or throws, and the catch of lines 104-107 then sets 'disconnected'.
initializeClaudeHooks ==
    /\ phase = "rendered"
    /\ phase' = "mounted"
    /\ \E constructed \in BOOLEAN :
        IF constructed
        THEN /\ mcpStatus' = "starting"
             /\ wsRef' = "ws"
             /\ readyState' = "connecting"
             /\ mcpServerRef' = initializeMCPServer
        ELSE /\ mcpStatus' = "disconnected"
             /\ UNCHANGED <<wsRef, readyState, mcpServerRef>>
    /\ intervalActive' = SimulateEffect(isConnected)
    /\ UNCHANGED <<isConnected, realTimeData, streamingUpdates, swarmSystem, clock, delivered>>
    /\ UNCHANGED <<uiVars, toolCall>>

\* ws.onopen without setMcpStatus('running').
wsOnOpen_OnlyConnected ==
    /\ readyState = "connecting"
    /\ readyState' = "open"
    /\ isConnected' = TRUE
    /\ intervalActive' = SimulateEffect(isConnected')
    /\ UNCHANGED <<phase, realTimeData, mcpStatus, streamingUpdates, wsRef, mcpServerRef,
                   swarmSystem, clock, delivered>>
    /\ UNCHANGED <<uiVars, toolCall>>

\* ws.onopen of a component that reconnects: a socket opens again after a close.
wsOnOpen_Reconnect ==
    /\ readyState \in {"connecting", "closed"}
    /\ phase = "mounted"
    /\ readyState' = "open"
    /\ isConnected' = TRUE
    /\ mcpStatus' = "running"
    /\ intervalActive' = SimulateEffect(isConnected')
    /\ UNCHANGED <<phase, realTimeData, streamingUpdates, wsRef, mcpServerRef,
                   swarmSystem, clock, delivered>>
    /\ UNCHANGED <<uiVars, toolCall>>

\* ws.onopen, lines 85-89. The socket opens once, from connecting.
wsOnOpen ==
    /\ readyState = "connecting"
    /\ readyState' = "open"
    /\ isConnected' = TRUE
    /\ mcpStatus' = "running"
    /\ intervalActive' = SimulateEffect(isConnected')
    /\ UNCHANGED <<phase, realTimeData, streamingUpdates, wsRef, mcpServerRef,
                   swarmSystem, clock, delivered>>
    /\ UNCHANGED <<uiVars, toolCall>>

\* ws.onmessage, lines 91-94: JSON.parse throws on a malformed frame and
\* nothing is updated; a parsed payload goes to handleRealTimeUpdate.
wsOnMessageFrom(payloads, limit) ==
    /\ readyState = "open"
    /\ \/ /\ Len(delivered) < limit
          /\ \E data \in payloads : handleRealTimeUpdate(data, "socket")
          /\ UNCHANGED <<phase, isConnected, mcpStatus, wsRef, readyState, mcpServerRef,
                         intervalActive>>
       \/ UNCHANGED feedVars
    /\ UNCHANGED <<uiVars, toolCall>>

wsOnMessage == wsOnMessageFrom(SocketPayloads, MaxUpdates)

\* ws.onmessage carrying the narrow payload.
wsOnMessageLog == wsOnMessageFrom(NarrowPayloads, MaxLogUpdates)

\* ws.onclose without setMcpStatus('disconnected').
wsOnClose_KeepStatus ==
    /\ readyState \in {"connecting", "open", "closing"}
    /\ readyState' = "closed"
    /\ IF phase = "mounted"
       THEN /\ isConnected' = FALSE
            /\ intervalActive' = SimulateEffect(isConnected')
       ELSE UNCHANGED <<isConnected, intervalActive>>
    /\ UNCHANGED <<phase, realTimeData, mcpStatus, streamingUpdates, wsRef, mcpServerRef,
                   swarmSystem, clock, delivered>>
    /\ UNCHANGED <<uiVars, toolCall>>

\* ws.onclose, lines 96-99. The close event ends the socket; the setters of
\* an unmounted component change nothing.
wsOnClose ==
    /\ readyState \in {"connecting", "open", "closing"}
    /\ readyState' = "closed"
    /\ IF Mounted
       THEN /\ isConnected' = FALSE
            /\ mcpStatus' = "disconnected"
            /\ intervalActive' = SimulateEffect(isConnected')
       ELSE UNCHANGED <<isConnected, mcpStatus, intervalActive>>
    /\ UNCHANGED <<phase, realTimeData, streamingUpdates, wsRef, mcpServerRef,
                   swarmSystem, clock, delivered>>
    /\ UNCHANGED <<uiVars, toolCall>>

\* One tick of the interval, lines 755-773.
IntervalTickFrom(mockUpdates, limit) ==
    /\ intervalActive
    /\ Len(delivered) < limit
    /\ \E mockUpdate \in mockUpdates : handleRealTimeUpdate(mockUpdate, "interval")
    /\ UNCHANGED <<phase, isConnected, mcpStatus, wsRef, readyState, mcpServerRef,
                   intervalActive>>
    /\ UNCHANGED <<uiVars, toolCall>>

IntervalTick == IntervalTickFrom(MockUpdates, MaxUpdates)

\* One tick of the interval drawing the narrow mock update.
IntervalTickLog == IntervalTickFrom(NarrowMockUpdates, MaxLogUpdates)

\* Unmount: the cleanups of lines 112-116 (close the socket, if one was
\* stored) and of line 775 (clear the interval).
Unmount ==
    /\ phase = "mounted"
    /\ phase' = "unmounted"
    /\ readyState' = IF wsRef # "null" /\ readyState \in {"connecting", "open"}
                     THEN "closing"
                     ELSE readyState
    /\ intervalActive' = FALSE
    /\ UNCHANGED <<isConnected, realTimeData, mcpStatus, streamingUpdates, wsRef,
                   mcpServerRef, swarmSystem, clock, delivered>>
    /\ UNCHANGED <<uiVars, toolCall>>

Next ==
    \/ initializeClaudeHooks
    \/ wsOnOpen
    \/ wsOnMessage
    \/ wsOnClose
    \/ IntervalTick
    \/ Unmount

Spec == Init /\ [][Next]_vars

\* The feed with many updates of few kinds.
NextLog ==
    \/ initializeClaudeHooks
    \/ wsOnOpen
    \/ wsOnMessageLog
    \/ wsOnClose
    \/ IntervalTickLog
    \/ Unmount

SpecLog == Init /\ [][NextLog]_vars

-----------------------------------------------------------------------------
(* The handlers of the Swarm variant's presentational state *)

\* ComponentNode onClick toggling: a click on the selected component clears it.
ComponentNodeOnClick_Toggle(ringKey, i) ==
    /\ Mounted
    /\ i \in DOMAIN SwarmLayout.rings[ringKey]
    /\ Component(SwarmLayout, ringKey, i) \in RenderedItems(SwarmLayout, activeRing)
    /\ selectedComponent' = IF selectedComponent = Component(SwarmLayout, ringKey, i)
                            THEN NoComponent
                            ELSE Component(SwarmLayout, ringKey, i)
    /\ UNCHANGED <<hoveredComponent, activeRing, isAnimating, viewMode, configPanelOpen>>

\* ComponentNode onClick, line 826, on a rendered ring component.
ComponentNodeOnClick(ringKey, i) ==
    /\ Mounted
    /\ i \in DOMAIN SwarmLayout.rings[ringKey]
    /\ Component(SwarmLayout, ringKey, i) \in RenderedItems(SwarmLayout, activeRing)
    /\ selectedComponent' = Component(SwarmLayout, ringKey, i)
    /\ UNCHANGED <<hoveredComponent, activeRing, isAnimating, viewMode, configPanelOpen>>

\* ComponentNode onMouseEnter, line 827.
ComponentNodeOnMouseEnter(ringKey, i) ==
    /\ Mounted
    /\ i \in DOMAIN SwarmLayout.rings[ringKey]
    /\ Component(SwarmLayout, ringKey, i) \in RenderedItems(SwarmLayout, activeRing)
    /\ hoveredComponent' = Component(SwarmLayout, ringKey, i)
    /\ UNCHANGED <<selectedComponent, activeRing, isAnimating, viewMode, configPanelOpen>>

\* ComponentNode onMouseLeave, line 828.
ComponentNodeOnMouseLeave(ringKey, i) ==
    /\ Mounted
    /\ i \in DOMAIN SwarmLayout.rings[ringKey]
    /\ Component(SwarmLayout, ringKey, i) \in RenderedItems(SwarmLayout, activeRing)
    /\ hoveredComponent' = NoComponent
    /\ UNCHANGED <<selectedComponent, activeRing, isAnimating, viewMode, configPanelOpen>>

\* NucleusNode onClick, line 918.
NucleusNodeOnClick ==
    /\ Mounted
    /\ selectedComponent' = Nucleus(SwarmLayout)
    /\ UNCHANGED <<hoveredComponent, activeRing, isAnimating, viewMode, configPanelOpen>>

\* NucleusNode onMouseEnter, line 919.
NucleusNodeOnMouseEnter ==
    /\ Mounted
    /\ hoveredComponent' = Nucleus(SwarmLayout)
    /\ UNCHANGED <<selectedComponent, activeRing, isAnimating, viewMode, configPanelOpen>>

\* NucleusNode onMouseLeave, line 920.
NucleusNodeOnMouseLeave ==
    /\ Mounted
    /\ hoveredComponent' = NoComponent
    /\ UNCHANGED <<selectedComponent, activeRing, isAnimating, viewMode, configPanelOpen>>

\* The close button of the detail panel, line 1019. The panel is on screen
\* only while something is selected.
CloseButtonOnClick ==
    /\ Mounted
    /\ DetailPanelRendered(selectedComponent)
    /\ selectedComponent' = NoComponent
    /\ UNCHANGED <<hoveredComponent, activeRing, isAnimating, viewMode, configPanelOpen>>

\* The mobile backdrop of the detail panel, line 1001. The Forge variants
\* have no backdrop: there the panel is closed by its button.
BackdropOnClick ==
    /\ Mounted
    /\ DetailPanelRendered(selectedComponent)
    /\ selectedComponent' = NoComponent
    /\ UNCHANGED <<hoveredComponent, activeRing, isAnimating, viewMode, configPanelOpen>>

\* The button that opens and closes the control panel, line 1125.
ConfigPanelOnClick ==
    /\ Mounted
    /\ configPanelOpen' = ~configPanelOpen
    /\ UNCHANGED <<selectedComponent, hoveredComponent, activeRing, isAnimating, viewMode>>

\* The System Focus select, lines 1141-1150, inside the open control panel.
ActiveRingOnChange(value) ==
    /\ Mounted
    /\ configPanelOpen
    /\ activeRing' = value
    /\ UNCHANGED <<selectedComponent, hoveredComponent, isAnimating, viewMode, configPanelOpen>>

\* A view mode button, lines 1156-1159.
ViewModeOnClick(mode) ==
    /\ Mounted
    /\ configPanelOpen
    /\ viewMode' = mode
    /\ UNCHANGED <<selectedComponent, hoveredComponent, activeRing, isAnimating, configPanelOpen>>

\* The animation button starting the animation, never pausing it.
AnimationOnClick_Restart ==
    /\ Mounted
    /\ configPanelOpen
    /\ isAnimating' = TRUE
    /\ UNCHANGED <<selectedComponent, hoveredComponent, activeRing, viewMode, configPanelOpen>>

\* The animation button, line 1175.
AnimationOnClick ==
    /\ Mounted
    /\ configPanelOpen
    /\ isAnimating' = ~isAnimating
    /\ UNCHANGED <<selectedComponent, hoveredComponent, activeRing, viewMode, configPanelOpen>>

\* The access-core button, line 1185.
AccessCoreOnClick ==
    /\ Mounted
    /\ configPanelOpen
    /\ selectedComponent' = Nucleus(SwarmLayout)
    /\ UNCHANGED <<hoveredComponent, activeRing, isAnimating, viewMode, configPanelOpen>>

\* The nodes the pointer reaches: the last MaxNodes of each ring.
Reach(ringKey) ==
    {i \in DOMAIN SwarmLayout.rings[ringKey] : i > Len(SwarmLayout.rings[ringKey]) - MaxNodes}

\* A Swarm handler, with the event it handled recorded.
Recorded(handler, ev) ==
    /\ handler
    /\ uiEvent' = ev
    /\ UNCHANGED <<feedVars, forge1, forge2, unmatched, toolCall>>

\* The Swarm component alone: its lifecycle and its user-interface events.
NextUI ==
    \/ initializeClaudeHooks
    \/ wsOnOpen
    \/ wsOnClose
    \/ Unmount
    \/ \E ringKey \in RingKeys : \E i \in Reach(ringKey) :
            Recorded(ComponentNodeOnClick(ringKey, i), Event("click", ringKey, i, ""))
    \/ \E ringKey \in RingKeys : \E i \in Reach(ringKey) :
            Recorded(ComponentNodeOnMouseEnter(ringKey, i), Event("enter", ringKey, i, ""))
    \/ \E ringKey \in RingKeys : \E i \in Reach(ringKey) :
            Recorded(ComponentNodeOnMouseLeave(ringKey, i), Event("leave", ringKey, i, ""))
    \/ Recorded(NucleusNodeOnClick, Event("click", "nucleus", 0, ""))
    \/ Recorded(NucleusNodeOnMouseEnter, Event("enter", "nucleus", 0, ""))
    \/ Recorded(NucleusNodeOnMouseLeave, Event("leave", "nucleus", 0, ""))
    \/ Recorded(CloseButtonOnClick, Event("close", "none", 0, "button"))
    \/ Recorded(BackdropOnClick, Event("close", "none", 0, "backdrop"))
    \/ Recorded(ConfigPanelOnClick, Event("panel", "none", 0, ""))
    \/ \E value \in RingOptions :
            Recorded(ActiveRingOnChange(value), Event("ring", "none", 0, value))
    \/ \E mode \in ViewModes :
            Recorded(ViewModeOnClick(mode), Event("view", "none", 0, mode))
    \/ Recorded(AnimationOnClick, Event("animate", "none", 0, ""))
    \/ Recorded(AccessCoreOnClick, Event("access", "none", 0, ""))

SpecUI == Init /\ [][NextUI]_vars

\* A Swarm handler, with the same event on the two Forge variants.
Mirrored(handler, ev) ==
    /\ handler
    /\ forge1' = ForgeStep(forge1, Forge1Layout, ev)
    /\ forge2' = ForgeStep(forge2, Forge2Layout, ev)
    /\ unmatched' = unmatched \cup Unmatched(ev)
    /\ UNCHANGED <<feedVars, uiEvent, toolCall>>

\* ws.onmessage and the interval tick next to the user interface.
wsOnMessageUI == wsOnMessageFrom(NarrowPayloads, MaxUIUpdates)
IntervalTickUI == IntervalTickFrom(NarrowMockUpdates, MaxUIUpdates)

\* The three variants side by side under the same user-interface events,
\* with the Swarm variant's feed.
NextVariants ==
    \/ initializeClaudeHooks
    \/ wsOnOpen
    \/ wsOnMessageUI
    \/ wsOnClose
    \/ IntervalTickUI
    \/ Unmount
    \/ \E ringKey \in RingKeys : \E i \in Reach(ringKey) :
            Mirrored(ComponentNodeOnClick(ringKey, i), Event("click", ringKey, i, ""))
    \/ \E ringKey \in RingKeys : \E i \in Reach(ringKey) :
            Mirrored(ComponentNodeOnMouseEnter(ringKey, i), Event("enter", ringKey, i, ""))
    \/ \E ringKey \in RingKeys : \E i \in Reach(ringKey) :
            Mirrored(ComponentNodeOnMouseLeave(ringKey, i), Event("leave", ringKey, i, ""))
    \/ Mirrored(NucleusNodeOnClick, Event("click", "nucleus", 0, ""))
    \/ Mirrored(NucleusNodeOnMouseEnter, Event("enter", "nucleus", 0, ""))
    \/ Mirrored(NucleusNodeOnMouseLeave, Event("leave", "nucleus", 0, ""))
    \/ Mirrored(CloseButtonOnClick, Event("close", "none", 0, "button"))
    \/ Mirrored(BackdropOnClick, Event("close", "none", 0, "backdrop"))
    \/ Mirrored(ConfigPanelOnClick, Event("panel", "none", 0, ""))
    \/ \E value \in RingOptions :
            Mirrored(ActiveRingOnChange(value), Event("ring", "none", 0, value))
    \/ \E mode \in ViewModes :
            Mirrored(ViewModeOnClick(mode), Event("view", "none", 0, mode))
    \/ Mirrored(AnimationOnClick, Event("animate", "none", 0, ""))
    \/ Mirrored(AccessCoreOnClick, Event("access", "none", 0, ""))

SpecVariants == Init /\ [][NextVariants]_vars

\* mcpServerRef.current.handleToolCall(name, args), lines 165-167: the call
\* goes to simulateToolCall, and the promise resolves to its result.
handleToolCall(name, args) ==
    /\ mcpServerRef = "server"
    /\ \E mockResults \in MockResults :
            toolCall' = [name   |-> name,
                         args   |-> args,
                         result |-> simulateToolCall(name, args, mockResults)]
    /\ UNCHANGED <<feedVars, uiVars>>

\* The component's lifecycle with the calls of its tool dispatcher.
NextTools ==
    \/ initializeClaudeHooks
    \/ wsOnOpen
    \/ wsOnClose
    \/ Unmount
    \/ \E name \in ToolNames, args \in ToolArgs : handleToolCall(name, args)

SpecTools == Init /\ [][NextTools]_vars

-----------------------------------------------------------------------------
(* Vocabulary of the properties *)

\* The step in which the socket's open event fires.
OpenEvent == readyState = "connecting" /\ readyState' = "open"

\* The step in which the socket's close event fires.
CloseEvent == readyState # "closed" /\ readyState' = "closed"

\* The step in which handleRealTimeUpdate takes one more update.
UpdateHandled == Len(delivered') = Len(delivered) + 1

\* The last update handed to handleRealTimeUpdate.
LastDelivered == delivered[Len(delivered)]

\* The positions in the history of the updates for key k, and of those that
\* carry field f.
UpdatesFor(k) == {i \in 1..Len(delivered) : KeyOf(delivered[i].data) = k}
WritesOf(k, f) == {i \in UpdatesFor(k) : f \in DOMAIN UpdatesOf(delivered[i].data)}
Latest(S) == CHOOSE m \in S : \A x \in S : x <= m

UpdateFields == {"efficiency", "throughput", "errorRate"}

\* The connection is over: the constructor threw or the close event has fired.
ConnectionOver == phase = "mounted" /\ (wsRef = "null" \/ readyState = "closed")

-----------------------------------------------------------------------------
(* Properties *)

\* C1: when the socket's open event fires, isConnected becomes true and
\* mcpStatus becomes 'running' in that same step.
C1_OpenSetsBoth ==
    [][OpenEvent => (isConnected' = TRUE /\ mcpStatus' = "running")]_vars

C1_Witness ==
    readyState = "open" /\ isConnected /\ mcpStatus = "running"

\* C2: when the socket's close event fires on the mounted component,
\* isConnected becomes false and mcpStatus becomes 'disconnected' in that same
\* step, from 'starting' as well as from 'running'.
C2_CloseClearsBoth ==
    [][(CloseEvent /\ phase = "mounted")
          => (isConnected' = FALSE /\ mcpStatus' = "disconnected")]_vars

C2_Witness ==
    /\ phase = "mounted"
    /\ readyState = "closed"
    /\ delivered # <<>>
    /\ ~isConnected
    /\ mcpStatus = "disconnected"

\* C3: every update handed to handleRealTimeUpdate, by the socket or by the
\* interval, is applied once and in order: the log holds the lines of the
\* latest updates (at most SliceEnd + 1), newest first, realTimeData has an
\* entry for exactly the keys updated, and each entry carries the time of the
\* latest update for its key.
C3_AppliedOnceInOrder ==
    LET n    == Len(delivered)
        kept == Min(n, SliceEnd + 1)
    IN  /\ Len(streamingUpdates) = kept
        /\ \A i \in 1..kept :
              streamingUpdates[i] = [time |-> delivered[n - i + 1].at,
                                     text |-> MessageOf(delivered[n - i + 1].data)]
        /\ DOMAIN realTimeData = {KeyOf(delivered[i].data) : i \in 1..n}
        /\ \A k \in DOMAIN realTimeData :
              realTimeData[k].lastUpdated = delivered[Latest(UpdatesFor(k))].at

C3_Witness ==
    /\ Len(delivered) = 3
    /\ delivered[1].source = "interval"
    /\ delivered[2].source = "socket"
    /\ delivered[3].source = "interval"
    /\ KeyOf(delivered[1].data) = KeyOf(delivered[2].data)
    /\ Len(streamingUpdates) = 3

\* C4: realTimeData is last-write-wins per field: an entry holds field f iff
\* some update for its key carried f, with the value of the latest such
\* update, whatever other keys were updated in between.
C4_LastWriteWins ==
    \A k \in DOMAIN realTimeData : \A f \in UpdateFields :
        IF WritesOf(k, f) = {}
        THEN f \notin DOMAIN realTimeData[k]
        ELSE /\ f \in DOMAIN realTimeData[k]
             /\ realTimeData[k][f] = UpdatesOf(delivered[Latest(WritesOf(k, f))].data)[f]

C4_Witness ==
    /\ Len(delivered) = 3
    /\ KeyOf(delivered[1].data) = KeyOf(delivered[3].data)
    /\ KeyOf(delivered[2].data) # KeyOf(delivered[1].data)
    /\ KeyOf(delivered[2].data) # "undefined"
    /\ {"efficiency", "throughput"} \subseteq DOMAIN UpdatesOf(delivered[1].data)
    /\ "efficiency" \in DOMAIN UpdatesOf(delivered[2].data)
    /\ DOMAIN UpdatesOf(delivered[3].data) = {"throughput"}
    /\ UpdatesOf(delivered[3].data)["throughput"]
          # UpdatesOf(delivered[1].data)["throughput"]

\* C5, as claimed: the mock interval of the mounted component runs without
\* any backend, that is also when the constructor threw or the socket closed.
C5_MockFeedWithoutBackend ==
    ConnectionOver => intervalActive

\* C6, as claimed: once a status_change for a ring component has been
\* handled, that component's status is the payload's status.
C6_StatusChangeApplied ==
    (delivered # <<>> /\ TypeOf(LastDelivered.data) = "status_change"
        /\ KeyOf(LastDelivered.data) \in ComponentIds)
    => swarmSystem[KeyOf(LastDelivered.data)].status = LastDelivered.data.status

\* C7, as claimed: once a cognitive_analysis payload of the socket has been
\* handled, realTimeData.cognitive holds the payload's analysis.
C7_CognitiveAnalysisStored ==
    (delivered # <<>> /\ TypeOf(LastDelivered.data) = "cognitive_analysis")
    => /\ "cognitive" \in DOMAIN realTimeData
       /\ realTimeData["cognitive"] = LastDelivered.data.analysis

\* C8, as claimed: handling a token_update payload of the socket sets
\* realTimeData.tokens to input, output and their sum, and changes no other key.
C8_TokenUpdateTracked ==
    [][(UpdateHandled /\ TypeOf(delivered'[Len(delivered')].data) = "token_update")
          => realTimeData' = updateTokenMetrics(realTimeData, delivered'[Len(delivered')].data)]_vars

\* C9: no failure recovery: once the constructor has thrown or the close event
\* has fired, the mounted component has no socket that opens again, and
\* isConnected is false and mcpStatus 'disconnected' from then on.
C9_NoRecovery ==
    [][/\ ConnectionOver => (wsRef' = wsRef /\ readyState' = readyState)
       /\ ConnectionOver' => (isConnected' = FALSE /\ mcpStatus' = "disconnected")]_vars

C9_Witness ==
    /\ ConnectionOver
    /\ wsRef = "ws"
    /\ Len(delivered) >= 2
    /\ ~intervalActive

RingComponentIds ==
    UNION {{SwarmLayout.rings[ringKey][i] : i \in DOMAIN SwarmLayout.rings[ringKey]} :
                ringKey \in RingKeys}
RingOf(id) ==
    CHOOSE ringKey \in RingKeys :
        \E i \in DOMAIN SwarmLayout.rings[ringKey] : SwarmLayout.rings[ringKey][i] = id

\* C11: the selection is one slot. After a click on a ring component or on
\* the nucleus, selectedComponent is the item clicked, whatever was selected
\* before; after the close button or the mobile backdrop it is null; and the
\* detail panel is rendered exactly while selectedComponent is not null.
C11_SingleSelectionSlot ==
    /\ uiEvent.kind = "click" =>
            /\ selectedComponent.ring = uiEvent.ring
            /\ selectedComponent.index = uiEvent.index
            /\ selectedComponent.id = IF uiEvent.ring = "nucleus"
                                      THEN SwarmLayout.nucleus
                                      ELSE SwarmLayout.rings[uiEvent.ring][uiEvent.index]
    /\ uiEvent.kind = "close" => selectedComponent.id = "null"
    /\ DetailPanelRendered(selectedComponent) <=> selectedComponent.id # "null"

\* The panel was open and the backdrop closed it, while another node is hovered.
C11_Witness ==
    /\ uiEvent.kind = "close"
    /\ uiEvent.value = "backdrop"
    /\ selectedComponent = NoComponent
    /\ ~DetailPanelRendered(selectedComponent)
    /\ hoveredComponent.ring \in RingKeys

\* C12: the tooltip of a rendered ring component is shown exactly when that
\* component is the hovered one or the selected one; mouse-enter makes the
\* component entered the hovered one, mouse-leave makes the hovered one
\* null, and neither changes selectedComponent.
C12_TooltipFollowsHoverAndSelection ==
    [][/\ \A item \in RenderedItems(SwarmLayout, activeRing') :
            item.ring \in RingKeys =>
                (TooltipShown(selectedComponent', hoveredComponent', item)
                    <=> (hoveredComponent' = item \/ selectedComponent' = item))
       /\ uiEvent'.kind = "enter" =>
            /\ hoveredComponent'.ring = uiEvent'.ring
            /\ hoveredComponent'.index = uiEvent'.index
            /\ uiEvent'.ring \in RingKeys =>
                  hoveredComponent'.id = SwarmLayout.rings[uiEvent'.ring][uiEvent'.index]
       /\ uiEvent'.kind = "leave" => hoveredComponent'.id = "null"
       /\ uiEvent'.kind \in {"enter", "leave"} => selectedComponent' = selectedComponent]_vars

\* One ring component is selected and, after a mouse-enter, another is hovered.
C12_Witness ==
    /\ uiEvent.kind = "enter"
    /\ selectedComponent.ring \in RingKeys
    /\ hoveredComponent.ring \in RingKeys
    /\ hoveredComponent # selectedComponent
    /\ {selectedComponent, hoveredComponent} \subseteq RenderedItems(SwarmLayout, activeRing)

\* C13: the node of a ring component is rendered exactly when activeRing is
\* 'all' or the key of the ring that holds the component, and the nucleus is
\* rendered whatever activeRing is.
C13_RingFilter ==
    /\ activeRing \in RingOptions
    /\ \A id \in RingComponentIds :
            (\E item \in RenderedItems(SwarmLayout, activeRing) : item.id = id)
                <=> (activeRing = "all" \/ activeRing = RingOf(id))
    /\ \E item \in RenderedItems(SwarmLayout, activeRing) : item.id = SwarmLayout.nucleus

\* The select has put the filter on one ring, and the nucleus was clicked under it.
C13_Witness ==
    /\ activeRing = "agents"
    /\ uiEvent.kind = "click"
    /\ uiEvent.ring = "nucleus"
    /\ selectedComponent = Nucleus(SwarmLayout)

\* The field that tells each tool's mock result from the others'.
OwnField ==
    [cognitive_analyzer  |-> "insights",
     performance_monitor |-> "metrics",
     integration_manager |-> "connections"]

\* C14: every call of handleToolCall leaves the component state as it was
\* and returns a result: for an advertised tool that tool's own mock result,
\* and for any other name, whatever the arguments, {status: 'executed'}.
C14_DispatcherTotal ==
    [][toolCall' # toolCall =>
        /\ UNCHANGED <<feedVars, uiVars>>
        /\ toolCall'.name \in AdvertisedTools =>
                OwnField[toolCall'.name] \in DOMAIN toolCall'.result
        /\ toolCall'.name \notin AdvertisedTools =>
                toolCall'.result = [status |-> "executed"]]_vars

\* An item of a Forge variant corresponds to an item of the Swarm variant
\* when it is the item at the same place of the Forge fixture (the nucleus
\* for the nucleus, the i-th component of a ring for the i-th component of
\* that ring), or when both are null.
SameItem(swarmItem, forgeItem, layout) ==
    /\ forgeItem.ring = swarmItem.ring
    /\ forgeItem.index = swarmItem.index
    /\ forgeItem = ItemAt(layout, swarmItem.ring, swarmItem.index)

\* The four state values that hold no component are equal.
SameControls(forge) ==
    /\ forge.activeRing = activeRing
    /\ forge.viewMode = viewMode
    /\ forge.isAnimating = isAnimating
    /\ forge.configPanelOpen = configPanelOpen

\* The six state values of a Forge variant correspond to the Swarm variant's.
Corresponds(forge, layout) ==
    /\ SameItem(selectedComponent, forge.selectedComponent, layout)
    /\ SameItem(hoveredComponent, forge.hoveredComponent, layout)
    /\ SameControls(forge)

\* C15 as stated: under every sequence of user-interface events, with the
\* Swarm variant's feed events in between, both Forge variants hold values
\* corresponding to the Swarm variant's, up to the renaming of component ids.
C15_VariantsCorrespond ==
    /\ Corresponds(forge1, Forge1Layout)
    /\ Corresponds(forge2, Forge2Layout)

\* C15, amended: the second Forge variant has a control for every event and
\* always corresponds; the first Forge variant, whose fixture has fewer
\* components, always agrees on the four values that hold no component, and
\* corresponds for as long as every event was on a control it has.
C15_VariantsCorrespondWhereMatched ==
    /\ "forge2" \notin unmatched
    /\ Corresponds(forge2, Forge2Layout)
    /\ SameControls(forge1)
    /\ "forge1" \notin unmatched => Corresponds(forge1, Forge1Layout)

\* Every event so far was on a control both Forge variants have; a ring
\* component is selected and the nucleus hovered in all three under their own
\* ids, the control panel is closed, and the feed has delivered an update.
C15_Witness ==
    /\ unmatched = {}
    /\ selectedComponent.ring \in RingKeys
    /\ forge1.selectedComponent.id \notin {selectedComponent.id, "null"}
    /\ forge2.selectedComponent.id \notin {selectedComponent.id, "null"}
    /\ hoveredComponent = Nucleus(SwarmLayout)
    /\ forge1.hoveredComponent = Nucleus(Forge1Layout)
    /\ forge2.hoveredComponent = Nucleus(Forge2Layout)
    /\ ~configPanelOpen /\ ~forge1.configPanelOpen /\ ~forge2.configPanelOpen
    /\ delivered # <<>>

\* 'Updates: {streamingUpdates.length}' of the Live Metrics panel, line 1306.
UpdatesCounter == Len(streamingUpdates)

\* C16: streamingUpdates never holds more than 10 lines, and neither does the
\* 'Updates:' counter exceed 10; every update handled puts its line at the
\* front, keeps the lines before it in their order behind it, and, when the
\* list already held 10, drops the oldest one.
C16_BoundedNewestFirst ==
    [][/\ Len(streamingUpdates') <= 10
       /\ UpdatesCounter' <= 10
       /\ UpdateHandled =>
            /\ streamingUpdates'[1].time = LastDelivered'.at
            /\ Len(streamingUpdates') = IF Len(streamingUpdates) = 10
                                        THEN 10
                                        ELSE Len(streamingUpdates) + 1
            /\ \A i \in 2..Len(streamingUpdates') :
                    streamingUpdates'[i] = streamingUpdates[i - 1]]_vars

\* The list is full and an update more than it holds has been handled: the
\* line of the first update is gone.
C16_Witness ==
    /\ Len(delivered) > 10
    /\ Len(streamingUpdates) = 10
    /\ \A i \in 1..10 : streamingUpdates[i].time # delivered[1].at
    /\ \E i, j \in 1..10 : streamingUpdates[i].text # streamingUpdates[j].text

\* C17: isConnected is true exactly when mcpStatus is 'running'; the mounted
\* component shows 'starting' only while its socket is still connecting; and
\* mcpStatus becomes 'running' only from 'starting', by the open event.
C17_StatusTracksConnection ==
    [][/\ isConnected' = (mcpStatus' = "running")
       /\ (phase' = "mounted" /\ mcpStatus' = "starting") => readyState' = "connecting"
       /\ (mcpStatus' = "running" /\ mcpStatus # "running")
             => (mcpStatus = "starting" /\ OpenEvent)]_vars

C17_Witness ==
    /\ phase = "mounted"
    /\ mcpStatus = "disconnected"
    /\ readyState = "closed"
    /\ \E i \in 1..Len(delivered) : delivered[i].source = "socket"

C19_ConstructorFailureCaught ==
    (phase # "rendered" /\ wsRef = "null")
    => /\ mcpStatus = "disconnected"
       /\ ~isConnected
       /\ readyState = "none"
       /\ mcpServerRef = "null"
       /\ ~intervalActive
       /\ delivered = <<>>

C19_Witness ==
    phase = "mounted" /\ wsRef = "null" /\ mcpServerRef = "null"

====
